---- MODULE Spec2Model ----
(***************************************************************************)
(* Model of the Flask backend in src/app.py: the numeric helpers           *)
(* (safe_float, round2, pct), the narrative builder construir_narrativa    *)
(* and the /api/ai-insight handler.                                        *)
(*                                                                         *)
(* Text is a sequence of one-character strings; the character U+2014 is    *)
(* written "emdash".  A Python float is a record [k, m, e]: k is "fin",    *)
(* "inf", "ninf" or "nan", and a finite value is the decimal m / 10^e in   *)
(* lowest form (e minimal).  Finite values are exact decimals: binary      *)
(* representation error is not modelled.                                   *)
(***************************************************************************)
EXTENDS Integers, Sequences, FiniteSets, TLC

VARIABLES
    arg,        \* safe_float: the value v passed in
    ret,        \* safe_float: the value returned
    sfpc,       \* safe_float: "call" before the call, "done" after, "off" when unused
    openai_key, \* OPENAI_API_KEY is set (module configuration)
    pc,         \* request lifecycle: "idle", "received", "responded"
    request,    \* the HTTP request in flight
    response,   \* the HTTP response of ai_insight
    locals      \* locals of construir_narrativa when it returned

vars == <<arg, ret, sfpc, openai_key, pc, request, response, locals>>

----------------------------------------------------------------------------
(* Python floats *)

RECURSIVE Pow10(_)
Pow10(n) == IF n = 0 THEN 1 ELSE 10 * Pow10(n - 1)

Abs(x) == IF x < 0 THEN -x ELSE x

RECURSIVE Norm(_, _)
\* the lowest form of m / 10^e
Norm(m, e) ==
    IF e > 0 /\ m % 10 = 0 THEN Norm(m \div 10, e - 1)
    ELSE [k |-> "fin", m |-> m, e |-> e]

Fin(i) == [k |-> "fin", m |-> i, e |-> 0]
PosInf == [k |-> "inf", m |-> 0, e |-> 0]
NegInf == [k |-> "ninf", m |-> 0, e |-> 0]
NaN == [k |-> "nan", m |-> 0, e |-> 0]

IsFinite(x) == x.k = "fin"

\* x < y on floats; every comparison with NaN is false
FLt(x, y) ==
    CASE x.k = "nan" \/ y.k = "nan" -> FALSE
      [] x.k = "inf" -> FALSE
      [] y.k = "ninf" -> FALSE
      [] x.k = "ninf" -> TRUE
      [] y.k = "inf" -> TRUE
      [] OTHER -> x.m * Pow10(y.e) < y.m * Pow10(x.e)

FGt(x, y) == FLt(y, x)

\* x + y on floats
FAdd(x, y) ==
    CASE x.k = "nan" \/ y.k = "nan" -> NaN
      [] x.k = "inf" -> IF y.k = "ninf" THEN NaN ELSE PosInf
      [] x.k = "ninf" -> IF y.k = "inf" THEN NaN ELSE NegInf
      [] y.k = "inf" -> PosInf
      [] y.k = "ninf" -> NegInf
      [] OTHER ->
            LET e == IF x.e > y.e THEN x.e ELSE y.e
            IN  Norm(x.m * Pow10(e - x.e) + y.m * Pow10(e - y.e), e)

\* x * i for a float x and an int i
FMulInt(x, i) ==
    CASE x.k = "nan" -> NaN
      [] x.k = "inf" -> IF i = 0 THEN NaN ELSE IF i > 0 THEN PosInf ELSE NegInf
      [] x.k = "ninf" -> IF i = 0 THEN NaN ELSE IF i > 0 THEN NegInf ELSE PosInf
      [] OTHER -> Norm(x.m * i, x.e)

\* the nearest multiple of 1/100 to num / den (den > 0), ties to even,
\* as hundredths
RoundCents(num, den) ==
    LET a == Abs(num) * 100
        q == a \div den
        r == a % den
        up == (2 * r > den) \/ (2 * r = den /\ q % 2 = 1)
        c == IF up THEN q + 1 ELSE q
    IN  IF num < 0 THEN -c ELSE c

\* int(x): truncation toward zero; raises on inf and nan
IntRaises(x) == x.k # "fin"
IntOf(x) ==
    LET q == Abs(x.m) \div Pow10(x.e)
    IN  IF x.m < 0 THEN -q ELSE q

\* round2, src/app.py:50-54: float(f"{v:.2f}")
round2(v) ==
    IF v.k # "fin" THEN v
    ELSE Norm(RoundCents(v.m, Pow10(v.e)), 2)

\* round2(x / d) for an int d > 0
round2_quot(x, d) ==
    IF x.k # "fin" THEN x
    ELSE Norm(RoundCents(x.m, Pow10(x.e) * d), 2)

----------------------------------------------------------------------------
(* Text *)

Digits == <<"0", "1", "2", "3", "4", "5", "6", "7", "8", "9">>
IsDigit(c) == \E i \in 1..10 : Digits[i] = c
DigitVal(c) == (CHOOSE i \in 1..10 : Digits[i] = c) - 1

RECURSIVE ReplaceRS(_)
\* s.replace("R$", "")
ReplaceRS(s) ==
    IF Len(s) = 0 THEN <<>>
    ELSE IF Len(s) >= 2 /\ s[1] = "R" /\ s[2] = "$"
         THEN ReplaceRS(SubSeq(s, 3, Len(s)))
         ELSE <<s[1]>> \o ReplaceRS(Tail(s))

\* s.replace(".", "")
DropDots(s) == SelectSeq(s, LAMBDA c : c # ".")

\* s.replace(",", ".")
CommaToDot(s) == [i \in 1..Len(s) |-> IF s[i] = "," THEN "." ELSE s[i]]

RECURSIVE LStrip(_)
LStrip(s) == IF Len(s) > 0 /\ s[1] = " " THEN LStrip(Tail(s)) ELSE s
RECURSIVE RStrip(_)
RStrip(s) ==
    IF Len(s) > 0 /\ s[Len(s)] = " " THEN RStrip(SubSeq(s, 1, Len(s) - 1)) ELSE s
\* s.strip()
Strip(s) == RStrip(LStrip(s))

RECURSIVE DigitsVal(_)
\* the number a run of digits spells
DigitsVal(s) ==
    IF Len(s) = 0 THEN 0
    ELSE 10 * DigitsVal(SubSeq(s, 1, Len(s) - 1)) + DigitVal(s[Len(s)])

AllDigits(s) == \A i \in 1..Len(s) : IsDigit(s[i])

ParseFail == [ok |-> FALSE, val |-> Fin(0)]

\* the decimal with integer part ip and fraction part fp
ParseParts(ip, fp, neg) ==
    IF AllDigits(ip) /\ AllDigits(fp) /\ Len(ip) + Len(fp) > 0
    THEN [ok |-> TRUE,
          val |-> Norm((IF neg THEN -1 ELSE 1)
                          * (DigitsVal(ip) * Pow10(Len(fp)) + DigitsVal(fp)),
                       Len(fp))]
    ELSE ParseFail

\* the position of the decimal point of body, Len(body) + 1 if it has none
DotPos(body) ==
    IF \E i \in 1..Len(body) : body[i] = "."
    THEN CHOOSE i \in 1..Len(body) : body[i] = "."
    ELSE Len(body) + 1

ParseDecimal(body, neg, p) ==
    ParseParts(SubSeq(body, 1, p - 1), SubSeq(body, p + 1, Len(body)), neg)

\* the text after the sign
ParseUnsigned(body, neg) ==
    IF body \in {<<"i", "n", "f">>, <<"i", "n", "f", "i", "n", "i", "t", "y">>}
    THEN [ok |-> TRUE, val |-> IF neg THEN NegInf ELSE PosInf]
    ELSE IF body = <<"n", "a", "n">> THEN [ok |-> TRUE, val |-> NaN]
    ELSE IF Cardinality({i \in 1..Len(body) : body[i] = "."}) > 1 THEN ParseFail
    ELSE ParseDecimal(body, neg, DotPos(body))

ParseSigned(s) ==
    IF Len(s) > 0 /\ s[1] \in {"-", "+"}
    THEN ParseUnsigned(Tail(s), s[1] = "-")
    ELSE ParseUnsigned(s, FALSE)

\* float(s) for text s without exponent part: [ok, val]; ok = FALSE is ValueError
PyFloatStr(s0) == ParseSigned(Strip(s0))

----------------------------------------------------------------------------
(* JSON values as Python sees them *)

None == [t |-> "none", s |-> <<>>, f |-> Fin(0)]
Str(s) == [t |-> "str", s |-> s, f |-> Fin(0)]
Num(f) == [t |-> "num", s |-> <<>>, f |-> f]
True == [t |-> "bool", s |-> <<>>, f |-> Fin(1)]
False == [t |-> "bool", s |-> <<>>, f |-> Fin(0)]
\* a non-empty list or dict
Other == [t |-> "other", s |-> <<>>, f |-> Fin(0)]

\* bool(v)
Truthy(v) ==
    CASE v.t = "none" -> FALSE
      [] v.t = "str" -> Len(v.s) > 0
      [] v.t = "num" -> ~(v.f.k = "fin" /\ v.f.m = 0)
      [] v.t = "bool" -> v.f.m = 1
      [] OTHER -> TRUE

\* the parsed value, or default when float() raised
ValueOr(p, default) == IF p.ok THEN p.val ELSE default

\* safe_float, src/app.py:31-39
safe_float(v) ==
    LET default == Fin(0)
    IN  CASE v.t = "none" -> default
          [] v.t = "str" ->
                IF v.s \in {<<>>, <<"emdash">>, <<"-">>} THEN default
                ELSE ValueOr(PyFloatStr(Strip(CommaToDot(DropDots(ReplaceRS(v.s))))),
                             default)
          [] v.t = "num" -> v.f
          [] v.t = "bool" -> v.f
          [] OTHER -> default

----------------------------------------------------------------------------
(* pct, src/app.py:42-47.  n is a float, d a JSON value (None or a number). *)
(* The result is [zero, val]: zero is the literal "0,00%" branch, val the   *)
(* percentage printed with two decimals otherwise.                         *)

pct(n, d) ==
    LET d1 == IF Truthy(d) THEN d.f ELSE Fin(0)
        guarded == [zero |-> TRUE, val |-> Fin(0)]
        shown(x) == [zero |-> FALSE, val |-> x]
    IN  IF d1.k = "ninf" \/ (d1.k = "fin" /\ d1.m <= 0) THEN guarded
        ELSE CASE n.k = "nan" \/ d1.k = "nan" -> shown(NaN)
               [] d1.k = "inf" -> shown(IF n.k = "fin" THEN Fin(0) ELSE NaN)
               [] n.k = "inf" -> shown(PosInf)
               [] n.k = "ninf" -> shown(NegInf)
               [] OTHER ->
                    shown(Norm(RoundCents(100 * n.m * Pow10(d1.e),
                                          d1.m * Pow10(n.e)), 2))

----------------------------------------------------------------------------
(* construir_narrativa, src/app.py:58-204 *)

Campanha == Str(<<"C", "a", "m", "p", "a", "n", "h", "a">>)

\* building one entry of camps raises (src/app.py:91-101): c.get on a
\* non-object, .strip() on a non-text status, int() of inf or nan
SanitizeRaises(c) ==
    \/ ~c.obj
    \/ Truthy(c.status) /\ c.status.t # "str"
    \/ IntRaises(safe_float(c.impressions))
    \/ IntRaises(safe_float(c.reach))
    \/ IntRaises(safe_float(c.results))
    \/ IntRaises(safe_float(c.conversations))

\* one entry of camps, src/app.py:91-101
Sanitize(c) ==
    [name |-> IF Truthy(c.name) THEN c.name ELSE Campanha,
     status |-> IF Truthy(c.status) THEN Strip(c.status.s) ELSE <<>>,
     spend |-> round2(safe_float(c.spend)),
     impressions |-> IntOf(safe_float(c.impressions)),
     reach |-> IntOf(safe_float(c.reach)),
     results |-> IntOf(safe_float(c.results)),
     cpa |-> round2(safe_float(c.cpa)),
     roas |-> round2(safe_float(c.roas)),
     conversations |-> IntOf(safe_float(c.conversations))]

\* raw_camps, src/app.py:86; iterating a non-list value raises
RawCamps(payload) == IF payload.ckind = "list" THEN payload.campaigns ELSE <<>>
RawCampsRaises(payload) == payload.ckind = "scalar"

RECURSIVE SumInt(_)
\* sum(...) of a sequence of ints
SumInt(xs) ==
    IF Len(xs) = 0 THEN 0
    ELSE SumInt(SubSeq(xs, 1, Len(xs) - 1)) + xs[Len(xs)]

RECURSIVE SumFloat(_)
\* sum(...) of a sequence of floats, left to right from the int 0
SumFloat(xs) ==
    IF Len(xs) = 0 THEN Fin(0)
    ELSE FAdd(SumFloat(SubSeq(xs, 1, Len(xs) - 1)), xs[Len(xs)])

total_spend(camps) == round2(SumFloat([i \in 1..Len(camps) |-> camps[i].spend]))
total_impr(camps) == SumInt([i \in 1..Len(camps) |-> camps[i].impressions])
total_results(camps) == SumInt([i \in 1..Len(camps) |-> camps[i].results])

\* the numerator of the weighted CPA, src/app.py:109
CpaNumerator(camps) ==
    LET pos == SelectSeq(camps, LAMBDA c : c.results > 0)
    IN  SumFloat([i \in 1..Len(pos) |-> FMulInt(pos[i].cpa, pos[i].results)])

\* the denominator of the division at src/app.py:109; 0 when it is not performed
Divisor(camps) ==
    IF total_results(camps) > 0
    THEN (IF total_results(camps) > 1 THEN total_results(camps) ELSE 1)
    ELSE 0

\* cpa_medio, src/app.py:108-111
cpa_medio(camps) ==
    IF total_results(camps) > 0
    THEN round2_quot(CpaNumerator(camps), Divisor(camps))
    ELSE Fin(0)

RECURSIVE camp_melhor_cpa(_)
\* index in camps of camp_melhor_cpa after the loop at src/app.py:116-119; 0 is None
camp_melhor_cpa(camps) ==
    IF Len(camps) = 0 THEN 0
    ELSE LET prev == camp_melhor_cpa(SubSeq(camps, 1, Len(camps) - 1))
             c == camps[Len(camps)]
         IN  IF c.results > 0 /\ (prev = 0 \/ FLt(c.cpa, camps[prev].cpa))
             THEN Len(camps) ELSE prev

RECURSIVE camp_mais_result(_)
\* index in camps of camp_mais_result after the loop at src/app.py:116-121; 0 is None
camp_mais_result(camps) ==
    IF Len(camps) = 0 THEN 0
    ELSE LET prev == camp_mais_result(SubSeq(camps, 1, Len(camps) - 1))
             c == camps[Len(camps)]
         IN  IF prev = 0 \/ c.results > camps[prev].results
             THEN Len(camps) ELSE prev

\* one element of linhas: a tag for the fixed text and the values printed in it
Line(tag, a, b, v, n, n2) == [tag |-> tag, a |-> a, b |-> b, v |-> v, n |-> n, n2 |-> n2]
Fixed(tag) == Line(tag, None, None, Fin(0), 0, 0)

\* Recommendation without the cpa > 0 test of its first branch
Recommendation_no_cpa_test(c) ==
    IF c.results > 0
    THEN <<Line("rec_scale", None, None, c.cpa, 0, 0)>>
    ELSE IF c.results = 0 /\ c.impressions > 0
         THEN <<Fixed("rec_delivery")>>
         ELSE <<Fixed("rec_insufficient")>>

\* the recommendation line of one campaign, src/app.py:169-179
Recommendation(c) ==
    IF c.results > 0 /\ FGt(c.cpa, Fin(0))
    THEN <<Line("rec_scale", None, None, c.cpa, 0, 0)>>
    ELSE IF c.results = 0 /\ c.impressions > 0
         THEN <<Fixed("rec_delivery")>>
         ELSE <<Fixed("rec_insufficient")>>

\* the lines of one campaign, src/app.py:167-183
CampLines(c) ==
    <<Line("camp", c.name, None, Fin(0), 0, 0)>>
    \o Recommendation(c)
    \o (IF FGt(c.roas, Fin(0))
        THEN <<Line("roas", None, None, c.roas, 0, 0)>> ELSE <<>>)
    \o <<Fixed("blank")>>

RECURSIVE RecLoop_by_spend(_)
\* RecLoop over camps sorted descending by spend
RecLoop_by_spend(camps) ==
    IF Len(camps) = 0 THEN <<>>
    ELSE LET top == CHOOSE i \in 1..Len(camps) :
                        \A j \in 1..Len(camps) :
                            /\ ~FLt(camps[i].spend, camps[j].spend)
                            /\ (j < i => FLt(camps[j].spend, camps[i].spend))
             rest == [j \in 1..(Len(camps) - 1) |->
                        IF j < top THEN camps[j] ELSE camps[j + 1]]
         IN  CampLines(camps[top]) \o RecLoop_by_spend(rest)

RECURSIVE RecLoop(_)
\* the loop at src/app.py:166-183
RecLoop(camps) ==
    IF Len(camps) = 0 THEN <<>>
    ELSE CampLines(Head(camps)) \o RecLoop(Tail(camps))

\* "## Recomendacoes por Campanha", src/app.py:164-183
RecSection(camps) == <<Fixed("h_recs")>> \o RecLoop(camps)

\* Highlights without the line for an empty campaign list
Highlights_no_empty_line(camps) ==
    LET best == camp_melhor_cpa(camps)
        most == camp_mais_result(camps)
    IN  <<Fixed("h_highlights")>>
        \o (IF best # 0 /\ camps[best].results > 0
            THEN <<Line("best_cpa", camps[best].name, None, camps[best].cpa,
                        camps[best].results, 0)>>
            ELSE <<>>)
        \o (IF most # 0
            THEN <<Line("most_results", camps[most].name, None, Fin(0),
                        camps[most].results, 0)>>
            ELSE <<>>)

\* "## Destaques", src/app.py:150-162
Highlights(camps) ==
    LET best == camp_melhor_cpa(camps)
        most == camp_mais_result(camps)
    IN  <<Fixed("h_highlights")>>
        \o (IF best # 0 /\ camps[best].results > 0
            THEN <<Line("best_cpa", camps[best].name, None, camps[best].cpa,
                        camps[best].results, 0)>>
            ELSE <<>>)
        \o (IF most # 0
            THEN <<Line("most_results", camps[most].name, None, Fin(0),
                        camps[most].results, 0)>>
            ELSE <<>>)
        \o (IF Len(camps) = 0 THEN <<Fixed("no_campaigns")>> ELSE <<>>)

\* "## Visao Geral", src/app.py:129-138
Overview(camps) ==
    <<Fixed("h_overview"),
      Line("totals", None, None, total_spend(camps), total_impr(camps),
           total_results(camps))>>
    \o (IF total_results(camps) > 0
        THEN <<Line("cpa_medio", None, None, cpa_medio(camps), 0, 0)>>
        ELSE <<Fixed("no_cpa")>>)

Text(s) == Str(s)
SuaMarca == Text(<<"s", "u", "a", " ", "m", "a", "r", "c", "a">>)
META == Text(<<"M", "E", "T", "A">>)
UltimoPeriodo ==
    Text(<<"U", "l", "t", "i", "m", "o", " ", "p", "e", "r", "i", "o", "d", "o">>)

OrDefault(v, d) == IF Truthy(v) THEN v ELSE d

\* linhas, src/app.py:124-202
Linhas(payload, camps) ==
    <<Line("title", OrDefault(payload.brand, SuaMarca), None, Fin(0), 0, 0),
      Line("meta", OrDefault(payload.channel, META),
           OrDefault(payload.period, UltimoPeriodo), Fin(0), 0, 0)>>
    \o Overview(camps)
    \o <<Fixed("h_metrics"), Fixed("metrics")>>
    \o Highlights(camps)
    \o RecSection(camps)
    \o <<Fixed("h_next"), Fixed("next_steps")>>
    \o (IF Truthy(payload.observations)
        THEN <<Fixed("h_obs"), Line("obs", payload.observations, None, Fin(0), 0, 0)>>
        ELSE <<>>)
    \o <<Fixed("closing")>>

\* "\n".join(linhas) raises when an element is not text, src/app.py:197,204
JoinRaises(payload) ==
    Truthy(payload.observations) /\ payload.observations.t # "str"

\* construir_narrativa raises
NarrativaRaises(payload) ==
    \/ RawCampsRaises(payload)
    \/ \E i \in 1..Len(RawCamps(payload)) : SanitizeRaises(RawCamps(payload)[i])
    \/ JoinRaises(payload)

\* camps, src/app.py:89-101
Camps(payload) ==
    [i \in 1..Len(RawCamps(payload)) |-> Sanitize(RawCamps(payload)[i])]

----------------------------------------------------------------------------
(* ai_insight, src/app.py:213-267 *)

EmptyPayload ==
    [brand |-> None, channel |-> None, period |-> None, observations |-> None,
     ckind |-> "absent", campaigns |-> <<>>]

\* reading the payload raises: json.loads on text that is not JSON
\* (src/app.py:225), or "campaigns" not in payload / payload["campaigns"] = []
\* on a value that is not a dict (src/app.py:228-229)
ParseRaises(req) ==
    IF req.is_json
    THEN req.body \in {"array", "scalar"}
    ELSE req.body \in {"invalid", "null", "array", "scalar"}

\* payload after src/app.py:220-229
ParsedPayload(req) ==
    LET p == IF req.body = "object" THEN req.payload ELSE EmptyPayload
    IN  IF p.ckind = "absent"
        THEN [p EXCEPT !.ckind = "list", !.campaigns = <<>>]
        ELSE p

NoLocals ==
    [returned |-> FALSE, camps |-> <<>>, total_results |-> 0, cpa_medio |-> Fin(0),
     divisor |-> 0, camp_melhor_cpa |-> 0, camp_mais_result |-> 0]

\* what construir_narrativa returns once camps is built
Built(payload, camps) ==
    [raised |-> FALSE,
     text |-> Linhas(payload, camps),
     locals |-> [returned |-> TRUE,
                 camps |-> camps,
                 total_results |-> total_results(camps),
                 cpa_medio |-> cpa_medio(camps),
                 divisor |-> Divisor(camps),
                 camp_melhor_cpa |-> camp_melhor_cpa(camps),
                 camp_mais_result |-> camp_mais_result(camps)]]

\* one call of construir_narrativa: [raised, text, locals]
construir_narrativa(payload) ==
    IF NarrativaRaises(payload)
    THEN [raised |-> TRUE, text |-> <<>>, locals |-> NoLocals]
    ELSE Built(payload, Camps(payload))

NoResponse == [status |-> 0, ok |-> FALSE, narrative |-> <<>>]
Failure == [status |-> 400, ok |-> FALSE, narrative |-> <<>>]
Success(text) == [status |-> 200, ok |-> TRUE, narrative |-> text]

NoRequest == [is_json |-> TRUE, body |-> "absent", payload |-> EmptyPayload]

----------------------------------------------------------------------------
(* Inputs *)

MaxCamps == 2
MaxLen == 3

T_A == <<"A">>
T_B == <<"B">>
T_1_50 == <<"1", ",", "5", "0">>
T_nan == <<"n", "a", "n">>
T_inf == <<"i", "n", "f">>
T_3 == <<"3">>
T_money == <<"R", "$", " ", "1", "0", ",", "5", "0">>
T_ativa == <<" ", "A", "t", "i", "v", "a", " ">>
T_obs == <<"o", "b", "s">>

Base ==
    [obj |-> TRUE, name |-> Str(T_A), status |-> None, spend |-> None,
     impressions |-> None, reach |-> None, results |-> None, cpa |-> None,
     roas |-> None, conversations |-> None]

ResultsCells == {None, Num(Fin(-1)), Num(Fin(1)), Str(T_3)}
CpaCells == {None, Str(T_1_50), Num(Fin(2)), Str(T_nan)}
ImprCells == {None, Num(Fin(100))}
NameCells == {None, Str(T_A), Str(T_B)}
SpendCells == {None, Str(T_money), Num(Fin(7))}

CampaignInputs ==
    {[Base EXCEPT !.results = r, !.cpa = c, !.impressions = i] :
        r \in ResultsCells, c \in CpaCells, i \in ImprCells}
    \cup {[Base EXCEPT !.name = n, !.spend = s] : n \in NameCells, s \in SpendCells}
    \cup {[Base EXCEPT !.obj = FALSE],
          [Base EXCEPT !.status = Str(T_ativa)],
          [Base EXCEPT !.status = Num(Fin(5))],
          [Base EXCEPT !.impressions = Str(T_inf)],
          [Base EXCEPT !.reach = Str(T_nan)],
          [Base EXCEPT !.conversations = Str(T_inf)],
          [Base EXCEPT !.spend = Str(T_inf)],
          [Base EXCEPT !.roas = Str(T_1_50), !.results = Num(Fin(1)), !.cpa = Str(T_inf)]}

CampaignLists == UNION {[1..n -> CampaignInputs] : n \in 0..MaxCamps}

Payloads ==
    {[EmptyPayload EXCEPT !.ckind = "list", !.campaigns = cs] : cs \in CampaignLists}
    \cup {[EmptyPayload EXCEPT !.ckind = k, !.observations = o, !.brand = b,
                               !.channel = b, !.period = b] :
            k \in {"absent", "null", "scalar"},
            o \in {None, Str(<<>>), Str(T_obs), Num(Fin(5))},
            b \in {None, Str(T_B)}}
    \cup {[EmptyPayload EXCEPT !.ckind = "list", !.campaigns = <<c>>,
                               !.observations = o] :
            c \in {Base, [Base EXCEPT !.obj = FALSE]},
            o \in {Str(T_obs), Num(Fin(5))}}

Requests ==
    {[is_json |-> TRUE, body |-> "object", payload |-> p] : p \in Payloads}
    \cup {[is_json |-> FALSE, body |-> "object", payload |-> p] :
            p \in {q \in Payloads : Len(q.campaigns) <= 1}}
    \cup {[is_json |-> j, body |-> b, payload |-> EmptyPayload] :
            j \in BOOLEAN, b \in {"absent", "invalid", "null", "array", "scalar"}}

SFAlphabet == {"1", "5", ".", ",", "-", " "}
SFTexts ==
    UNION {[1..n -> SFAlphabet] : n \in 0..MaxLen}
    \cup {<<"emdash">>, T_inf, T_nan, T_money, T_1_50,
          <<"-", "i", "n", "f">>, <<"i", "n", "f", "i", "n", "i", "t", "y">>,
          <<"1", ".", "2", "3", "4", ",", "5", "6">>,
          <<"1", ",", "2", "3", "4", ".", "5", "6">>,
          <<"1", "0", ".", "5", "0">>,
          <<"R", "$">>, <<"R", "R", "$", "$", "5">>, <<"a", "b", "c">>}
SFInputs ==
    {Str(s) : s \in SFTexts}
    \cup {None, True, False, Other, Num(Fin(7)), Num(Norm(105, 1))}

----------------------------------------------------------------------------
(* The request lifecycle *)

Init ==
    /\ arg = None /\ ret = Fin(0) /\ sfpc = "off"
    /\ openai_key \in BOOLEAN
    /\ pc = "idle"
    /\ request = NoRequest
    /\ response = NoResponse
    /\ locals = NoLocals

\* a POST /api/ai-insight arrives
Receive ==
    /\ pc = "idle"
    /\ pc' = "received"
    /\ request' \in Requests
    /\ UNCHANGED <<arg, ret, sfpc, openai_key, response, locals>>

\* the response for the outcome r of construir_narrativa: src/app.py:263-264,
\* or the except branch at :266-267
Outcome(r) ==
    IF r.raised
    THEN [response |-> Failure, locals |-> NoLocals]
    ELSE [response |-> Success(r.text), locals |-> r.locals]

\* src/app.py:232-264: with the key set, a call that raises is made again in
\* the except branch at :257-260
Generate(payload, key, first) ==
    IF key /\ first.raised THEN Outcome(construir_narrativa(payload)) ELSE Outcome(first)

\* what the handler returns for a request: [response, locals]
Handle(req, key) ==
    IF ParseRaises(req)
    THEN [response |-> Failure, locals |-> NoLocals]
    ELSE Generate(ParsedPayload(req), key, construir_narrativa(ParsedPayload(req)))

\* the handler, src/app.py:213-267
ai_insight ==
    /\ pc = "received"
    /\ pc' = "responded"
    /\ \E out \in {Handle(request, openai_key)} :
          /\ response' = out.response
          /\ locals' = out.locals
    /\ UNCHANGED <<arg, ret, sfpc, openai_key, request>>

\* the response is sent; nothing is kept between requests
Respond ==
    /\ pc = "responded"
    /\ pc' = "idle"
    /\ request' = NoRequest
    /\ response' = NoResponse
    /\ locals' = NoLocals
    /\ UNCHANGED <<arg, ret, sfpc, openai_key>>

Next == Receive \/ ai_insight \/ Respond

Spec == Init /\ [][Next]_vars

----------------------------------------------------------------------------
(* safe_float on its own *)

InitSafeFloat ==
    /\ arg \in SFInputs /\ ret = Fin(0) /\ sfpc = "call"
    /\ openai_key = FALSE
    /\ pc = "idle"
    /\ request = NoRequest
    /\ response = NoResponse
    /\ locals = NoLocals

CallSafeFloat ==
    /\ sfpc = "call"
    /\ sfpc' = "done"
    /\ ret' = safe_float(arg)
    /\ UNCHANGED <<arg, openai_key, pc, request, response, locals>>

NextSafeFloat == CallSafeFloat

SpecSafeFloat == InitSafeFloat /\ [][NextSafeFloat]_vars

----------------------------------------------------------------------------
(* Reading a narrative *)

Headings == {"h_overview", "h_metrics", "h_highlights", "h_recs", "h_next", "h_obs"}
RecTags == {"rec_scale", "rec_delivery", "rec_insufficient"}

HasTag(text, tag) == \E i \in 1..Len(text) : text[i].tag = tag

\* the lines under heading h, up to the next heading or the closing rule
Section(text, h) ==
    IF ~HasTag(text, h) THEN <<>>
    ELSE LET start == CHOOSE i \in 1..Len(text) : text[i].tag = h
             stops == {i \in (start + 1)..Len(text) :
                          text[i].tag \in Headings \cup {"closing"}}
             stop == IF stops = {} THEN Len(text) + 1
                     ELSE CHOOSE i \in stops : \A j \in stops : i <= j
         IN  SubSeq(text, start + 1, stop - 1)

Tags(lines) == [i \in 1..Len(lines) |-> lines[i].tag]

Produced == pc = "responded" /\ locals.returned

\* the raw campaign entries of the request in flight
Entries == RawCamps(ParsedPayload(request))

----------------------------------------------------------------------------
(* C1 *)

\* C1: every request whose top-level payload is a JSON object gets the success
\* response with a non-empty narrative, whatever its campaign entries and cells
\* hold; the 400 response is given only to a malformed top-level payload.
C1_ObjectPayloadSucceeds ==
    pc = "responded" /\ request.body = "object" /\ request.payload.ckind # "scalar"
        => /\ response.status = 200
           /\ response.ok
           /\ Len(response.narrative) > 0

----------------------------------------------------------------------------
(* C2 *)

\* the campaigns with results > 0
Positive(camps) == SelectSeq(camps, LAMBDA c : c.results > 0)

\* C2: the average CPA is sum(cpa_i * results_i) / sum(results_i), both sums over
\* the campaigns with results_i > 0 only (to the cent), and 0 when there is none.
C2_WeightedCpaOverPositive ==
    Produced =>
        LET pos == Positive(locals.camps)
            den == SumInt([i \in 1..Len(pos) |-> pos[i].results])
        IN  locals.cpa_medio =
                IF Len(pos) = 0 THEN Fin(0)
                ELSE round2_quot(CpaNumerator(locals.camps), den)

----------------------------------------------------------------------------
(* C3, C4, C5: safe_float *)

Count(s, ch) == Cardinality({i \in 1..Len(s) : s[i] = ch})

\* digits and separators with an optional leading sign, at most one ","
IsNumericToken(s) ==
    /\ \E i \in 1..Len(s) : IsDigit(s[i])
    /\ \A i \in 1..Len(s) :
          IsDigit(s[i]) \/ s[i] \in {".", ","} \/ (i = 1 /\ s[i] = "-")
    /\ Count(s, ",") <= 1

\* the token rewritten by the locale rule of spec 4.4
LocaleRule(s) ==
    IF Count(s, ",") > 0 /\ Count(s, ".") > 0 THEN CommaToDot(DropDots(s))
    ELSE IF Count(s, ",") > 0 THEN CommaToDot(s)
    ELSE s

LocaleValue(s) == ValueOr(PyFloatStr(LocaleRule(s)), Fin(0))

\* C3: a numeric token with both "." and "," has "," as decimal separator and
\* its "." dropped; with only ",", "," is the decimal separator; with only ".",
\* "." is the decimal separator.
C3_LocaleDisambiguation ==
    sfpc = "done" /\ arg.t = "str" /\ IsNumericToken(arg.s)
        => ret = LocaleValue(arg.s)

\* C4: "1.234,56" and "1,234.56" give 1234.56, "R$ 10,50" gives 10.5, and "",
\* the dash and the em dash give 0.0.
C4_LocaleFormats ==
    sfpc = "done" =>
        /\ arg = Str(<<"1", ".", "2", "3", "4", ",", "5", "6">>) => ret = Norm(123456, 2)
        /\ arg = Str(<<"1", ",", "2", "3", "4", ".", "5", "6">>) => ret = Norm(123456, 2)
        /\ arg = Str(T_money) => ret = Norm(105, 1)
        /\ arg \in {Str(<<>>), Str(<<"emdash">>), Str(<<"-">>)} => ret = Fin(0)

\* the text spells an ordinary number once cleaned
OrdinaryNumber(s) ==
    IsFinite(ValueOr(PyFloatStr(Strip(CommaToDot(DropDots(ReplaceRS(s))))), NaN))

\* C5: safe_float returns a finite float for every value, and 0.0 whenever the
\* cleaned text is not an ordinary number.
C5_AlwaysFinite ==
    sfpc = "done" =>
        /\ IsFinite(ret)
        /\ (arg.t = "str" /\ ~OrdinaryNumber(arg.s) => ret = Fin(0))

----------------------------------------------------------------------------
(* C6 *)

\* C6 as stated: with no campaigns the overview says that no entities were
\* processed, and the narrative has no highlights section and no per-campaign
\* section: neither heading nor lines.
C6_EmptyOmitsSections ==
    Produced /\ Len(locals.camps) = 0 =>
        /\ HasTag(Section(response.narrative, "h_overview"), "no_campaigns")
        /\ ~HasTag(response.narrative, "h_highlights")
        /\ ~HasTag(response.narrative, "h_recs")

\* C6 amended: with no campaigns the overview reports zero totals and that the
\* average CPA cannot be computed; the highlights heading is emitted with the
\* "no campaigns processed" line as its only line; the per-campaign heading is
\* emitted with no line under it.
C6_EmptyNarrative ==
    Produced /\ Len(Entries) = 0 =>
        /\ Section(response.narrative, "h_overview")
              = <<Line("totals", None, None, Fin(0), 0, 0), Fixed("no_cpa")>>
        /\ Section(response.narrative, "h_highlights") = <<Fixed("no_campaigns")>>
        /\ HasTag(response.narrative, "h_recs")
        /\ Section(response.narrative, "h_recs") = <<>>

C6_Witness ==
    /\ Produced
    /\ request.body = "object"
    /\ request.payload.ckind = "list"
    /\ Len(request.payload.campaigns) = 0
    /\ response.status = 200

----------------------------------------------------------------------------
(* C7 *)

\* the campaign names in the order of the per-campaign section
SectionNames ==
    LET heads == SelectSeq(Section(response.narrative, "h_recs"),
                           LAMBDA l : l.tag = "camp")
    IN  [i \in 1..Len(heads) |-> heads[i].a]

CharOrder ==
    <<" ", "$", ",", "-", ".", "0", "1", "2", "3", "4", "5", "6", "7", "8", "9",
      "A", "B", "C", "a", "h", "m", "n", "p">>
Rank(ch) == CHOOSE i \in 1..Len(CharOrder) : CharOrder[i] = ch

RECURSIVE TextLe(_, _)
\* s <= t on text
TextLe(s, t) ==
    IF Len(s) = 0 THEN TRUE
    ELSE IF Len(t) = 0 THEN FALSE
    ELSE IF s[1] = t[1] THEN TextLe(Tail(s), Tail(t))
    ELSE Rank(s[1]) < Rank(t[1])

\* a may stand before b: more spend, or the same spend and name not after
Before(a, b) ==
    \/ FGt(a.spend, b.spend)
    \/ a.spend = b.spend /\ TextLe(a.name.s, b.name.s)

Orders(n) == {p \in [1..n -> 1..n] : \A i, j \in 1..n : i # j => p[i] # p[j]}

\* C7 as stated: the per-campaign section lists the campaigns sorted descending
\* by spend, ties by name ascending, whatever the input order.
C7_SortedBySpend ==
    Produced =>
        \E p \in Orders(Len(locals.camps)) :
            /\ \A i, j \in 1..Len(locals.camps) :
                  i < j => Before(locals.camps[p[i]], locals.camps[p[j]])
            /\ SectionNames = [i \in 1..Len(locals.camps) |-> locals.camps[p[i]].name]

\* C7 amended: the per-campaign section lists the campaigns in the order of the
\* input list, whatever their spend and names.
C7_InputOrder ==
    Produced =>
        SectionNames = [i \in 1..Len(Entries) |-> OrDefault(Entries[i].name, Campanha)]

C7_Witness ==
    /\ Produced
    /\ Len(locals.camps) = 2
    /\ FLt(locals.camps[1].spend, locals.camps[2].spend)
    /\ locals.camps[1].name # locals.camps[2].name
    /\ SectionNames = <<locals.camps[1].name, locals.camps[2].name>>

----------------------------------------------------------------------------
(* C8 *)

Eligible == {i \in 1..Len(locals.camps) : locals.camps[i].results > 0}

BestLines == SelectSeq(Section(response.narrative, "h_highlights"),
                       LAMBDA l : l.tag = "best_cpa")

\* x <= y on floats
FLe(x, y) == FLt(x, y) \/ (x.k # "nan" /\ x = y)

\* C8: the best-efficiency line names the campaign with the lowest CPA among
\* those with results > 0, the first in input order among equals, and is absent
\* when no campaign has results > 0.
C8_BestEfficiency ==
    Produced =>
        IF Eligible = {} THEN BestLines = <<>>
        ELSE \E b \in Eligible :
                /\ BestLines = <<Line("best_cpa", locals.camps[b].name, None,
                                      locals.camps[b].cpa, locals.camps[b].results, 0)>>
                /\ locals.camp_melhor_cpa = b
                /\ \A j \in Eligible \ {b} :
                      locals.camps[j].cpa.k # "nan" =>
                          /\ FLe(locals.camps[b].cpa, locals.camps[j].cpa)
                          /\ (j < b => FLt(locals.camps[b].cpa, locals.camps[j].cpa))

----------------------------------------------------------------------------
(* C9 *)

\* the lines of the per-campaign section that are headings or recommendations
HeadsAndRecs ==
    SelectSeq(Section(response.narrative, "h_recs"),
              LAMBDA l : l.tag \in RecTags \cup {"camp"})

\* C9: every campaign of the input gets exactly one recommendation line:
\* "scale" when results > 0 and cpa > 0; otherwise "delivery" when results = 0
\* and impressions > 0; "insufficient data" in every other case.
C9_OneRecommendation ==
    Produced =>
        /\ Len(HeadsAndRecs) = 2 * Len(Entries)
        /\ \A i \in 1..Len(Entries) :
              LET c == locals.camps[i]
                  tag == HeadsAndRecs[2 * i].tag
                  scale == c.results > 0 /\ FGt(c.cpa, Fin(0))
                  delivery == c.results = 0 /\ c.impressions > 0
              IN  /\ HeadsAndRecs[2 * i - 1].tag = "camp"
                  /\ tag \in RecTags
                  /\ scale => tag = "rec_scale"
                  /\ ~scale /\ delivery => tag = "rec_delivery"
                  /\ ~scale /\ ~delivery => tag = "rec_insufficient"

C9_Witness ==
    /\ Produced
    /\ Len(locals.camps) = 2
    /\ locals.camps[1].results > 0 /\ ~FGt(locals.camps[1].cpa, Fin(0))
    /\ locals.camps[2].results = 0 /\ locals.camps[2].impressions > 0
    /\ Tags(HeadsAndRecs) = <<"camp", "rec_insufficient", "camp", "rec_delivery">>

----------------------------------------------------------------------------
(* C10 *)

PctNumerators == {Fin(0), Fin(1), Fin(-3), Norm(25, 1)}
PctDenominators == {None, Num(Fin(0)), Num(Fin(-2)), Num(Fin(4)), Num(Norm(5, 1))}

\* C10: pct gives the zero percentage for a denominator that is None, 0 or
\* negative; the average-CPA division never has a denominator <= 0; and no
\* ratio comes out infinite or NaN.
C10_RatiosGuarded ==
    /\ \A n \in PctNumerators, d \in PctDenominators :
          /\ (~Truthy(d) \/ FLt(d.f, Fin(0))) => pct(n, d).zero
          /\ IsFinite(pct(n, d).val)
    /\ Produced =>
          /\ locals.total_results > 0 => locals.divisor > 0
          /\ locals.total_results <= 0 => locals.divisor = 0 /\ locals.cpa_medio = Fin(0)
          /\ IsFinite(locals.cpa_medio)

====
